---- MODULE Spec2Model ----
(***************************************************************************)
(* A model of omniweb_visualizer.py: the fixed-width parser read_data, the *)
(* module-level startup that builds the Dash layout, and the two callbacks *)
(* update_graph and display_click_data.                                    *)
(*                                                                         *)
(* Python values are tagged records, so that values of different Python    *)
(* types can be compared:                                                  *)
(*   [v |-> n]      a number (the model's numbers are integers)            *)
(*   [nan |-> TRUE] the float NaN (a blank cell of the file)               *)
(*   [inf |-> TRUE] the float +infinity                                    *)
(*   [none |-> TRUE] None (what NaN becomes when it crosses JSON)          *)
(*   [s |-> "..."]  a str                                                  *)
(*   [nat |-> TRUE] pandas NaT                                             *)
(*   [year, month, day, hour, minute] a Timestamp                          *)
(***************************************************************************)
EXTENDS Integers, Sequences, FiniteSets, TLC

VARIABLES
    lst_file,           \* the input file: readable or not, and its lines
    pc,                 \* position of the script: start, loaded, empty, crashed, serving
    storm_data,         \* the module-level DataFrame: a sequence of rows
    selected_year,      \* value of 'year-dropdown'
    selected_magnitude, \* value of 'magnitude-slider'
    filtered_data,      \* update_graph's local of the last call
    figure,             \* 'storm-3d-plot'.figure, the arrays given to Scatter3d
    clickData,          \* 'storm-3d-plot'.clickData
    click_text,         \* 'click-data'.children
    raised              \* a callback has raised

vars == <<lst_file, pc, storm_data, selected_year, selected_magnitude,
          filtered_data, figure, clickData, click_text, raised>>

\* Longest input file of the model, in lines.
MaxLines == 3

(***************************************************************************)
(* Python values                                                           *)
(***************************************************************************)
Num(n) == [v |-> n]
NaN == [nan |-> TRUE]
Inf == [inf |-> TRUE]
None == [none |-> TRUE]
NaT == [nat |-> TRUE]
Str(s) == [s |-> s]

IsNum(x) == DOMAIN x = {"v"}
IsStr(x) == DOMAIN x = {"s"}

\* a comparison that lets a missing magnitude pass (the column filled before
\* the comparison)
LeNaNPasses(a, b) ==
    IF a = NaN THEN TRUE
    ELSE IF b = NaN THEN FALSE
    ELSE IF b = Inf THEN TRUE
    ELSE IF a = Inf THEN FALSE
    ELSE a.v <= b.v

\* float comparison a <= b: every comparison with NaN is False
Le(a, b) ==
    IF a = NaN \/ b = NaN THEN FALSE
    ELSE IF b = Inf THEN TRUE
    ELSE IF a = Inf THEN FALSE
    ELSE a.v <= b.v

\* Series == scalar: NaN equals nothing, None equals nothing
Eq(a, b) == IsNum(a) /\ IsNum(b) /\ a.v = b.v

\* str(x) of an f-string
PyStr(x) ==
    IF x = None THEN "None"
    ELSE IF IsStr(x) THEN x.s
    ELSE ToString(x.v)

\* json: NaN is sent as null and comes back as None
Json(x) == IF x = NaN THEN None ELSE x

(***************************************************************************)
(* Strings of digits                                                       *)
(***************************************************************************)
Digits == {"0", "1", "2", "3", "4", "5", "6", "7", "8", "9"}

Char(s, i) == SubSeq(s, i, i)

IsDigits(s) == Len(s) > 0 /\ \A i \in 1..Len(s) : Char(s, i) \in Digits

DigitVal(c) ==
    CASE c = "0" -> 0 [] c = "1" -> 1 [] c = "2" -> 2 [] c = "3" -> 3
      [] c = "4" -> 4 [] c = "5" -> 5 [] c = "6" -> 6 [] c = "7" -> 7
      [] c = "8" -> 8 [] c = "9" -> 9

RECURSIVE StrToInt(_)
StrToInt(s) ==
    IF Len(s) = 0 THEN 0
    ELSE StrToInt(SubSeq(s, 1, Len(s) - 1)) * 10 + DigitVal(Char(s, Len(s)))

\* s.split('-')
RECURSIVE SplitDash(_)
SplitDash(s) ==
    IF \A i \in 1..Len(s) : Char(s, i) # "-" THEN <<s>>
    ELSE LET i == CHOOSE k \in 1..Len(s) :
                      Char(s, k) = "-" /\ \A j \in 1..(k - 1) : Char(s, j) # "-"
         IN <<SubSeq(s, 1, i - 1)>> \o SplitDash(SubSeq(s, i + 1, Len(s)))

Pad2(n) == IF n < 10 THEN "0" \o ToString(n) ELSE ToString(n)

(***************************************************************************)
(* Calendar                                                                *)
(***************************************************************************)
IsLeap(y) == (y % 4 = 0 /\ y % 100 # 0) \/ y % 400 = 0

DaysInMonth(y, m) ==
    IF m = 2 THEN (IF IsLeap(y) THEN 29 ELSE 28)
    ELSE IF m \in {4, 6, 9, 11} THEN 30 ELSE 31

\* the date that is day j (1-based) of year y, counting on into the next
\* year when j is past the end of y
RECURSIVE FromOrdinal(_, _, _)
FromOrdinal(y, m, j) ==
    IF m > 12 THEN FromOrdinal(y + 1, 1, j)
    ELSE IF j > DaysInMonth(y, m) THEN FromOrdinal(y, m + 1, j - DaysInMonth(y, m))
    ELSE [year |-> y, month |-> m, day |-> j]

(***************************************************************************)
(* read_data                                                               *)
(***************************************************************************)
\* The columns of column_names that the script reads after the parse.  The
\* eleven names after 'BZ' are only parsed and printed, never read.
column_names ==
    <<"Year", "Day", "Hour", "Minute", "Field_Magnitude_Avg", "BX", "BY", "BZ">>

\* pd.read_fwf(lst_file, names=column_names) on the lines of a readable file
\* with at least one line: one row per line, a cell per name; a name past
\* the fields of the line gets NaN, as a blank field does.
read_fwf(lines) ==
    [i \in 1..Len(lines) |->
        [c \in {column_names[k] : k \in 1..Len(column_names)} |->
            LET k == CHOOSE j \in 1..Len(column_names) : column_names[j] = c
            IN IF k <= Len(lines[i]) THEN lines[i][k] ELSE NaN]]

\* dtype of a column of numeric cells: int64, or float64 when a cell is NaN
Dtype(data, c) ==
    IF \A i \in 1..Len(data) : IsNum(data[i][c]) THEN "int64" ELSE "float64"

\* one cell of column.astype(str)
AsTypeStr(x, dtype) ==
    IF dtype = "int64" THEN ToString(x.v)
    ELSE IF x = NaN THEN "nan"
    ELSE ToString(x.v) \o ".0"

\* data[['Year', 'Day', 'Hour', 'Minute']].astype(str).agg('-'.join, axis=1)
JoinedStamp(data, i) ==
    AsTypeStr(data[i]["Year"], Dtype(data, "Year")) \o "-" \o
    AsTypeStr(data[i]["Day"], Dtype(data, "Day")) \o "-" \o
    AsTypeStr(data[i]["Hour"], Dtype(data, "Hour")) \o "-" \o
    AsTypeStr(data[i]["Minute"], Dtype(data, "Minute"))

\* pd.to_datetime(s, format='%Y-%j-%H-%M', errors='coerce') of one string:
\* %Y is four digits, %j one to three digits in 1..366, %H one or two digits
\* in 0..23, %M one or two digits in 0..59; anything else is NaT.
to_datetime(s) ==
    LET p == SplitDash(s) IN
    IF Len(p) # 4 THEN NaT
    ELSE IF ~(IsDigits(p[1]) /\ Len(p[1]) = 4) THEN NaT
    ELSE IF ~(IsDigits(p[2]) /\ Len(p[2]) <= 3 /\ StrToInt(p[2]) \in 1..366) THEN NaT
    ELSE IF ~(IsDigits(p[3]) /\ Len(p[3]) <= 2 /\ StrToInt(p[3]) \in 0..23) THEN NaT
    ELSE IF ~(IsDigits(p[4]) /\ Len(p[4]) <= 2 /\ StrToInt(p[4]) \in 0..59) THEN NaT
    ELSE LET d == FromOrdinal(StrToInt(p[1]), 1, StrToInt(p[2]))
         IN [year |-> d.year, month |-> d.month, day |-> d.day,
             hour |-> StrToInt(p[3]), minute |-> StrToInt(p[4])]

\* pd.DataFrame()
EmptyDataFrame == <<>>

\* read_data(lst_file): an unreadable file and a file without lines make
\* read_fwf raise, and the except branch returns the empty DataFrame.
read_data(f) ==
    IF ~f.readable \/ Len(f.lines) = 0 THEN EmptyDataFrame
    ELSE LET data == read_fwf(f.lines)
         IN [i \in 1..Len(data) |->
                data[i] @@ ("DateTime" :> to_datetime(JoinedStamp(data, i)))]

(***************************************************************************)
(* Input files                                                             *)
(***************************************************************************)
Row(y, d, h, mi, mag, bx, by, bz) == <<y, d, h, mi, mag, bx, by, bz>>

\* The lines an input file is made of: complete lines, lines with an
\* out-of-range day of year, lines with a blank field, and lines that stop
\* before the last field.
LineSet ==
    { Row(Num(2024), Num(131), Num(12), Num(0), Num(5), Num(1), Num(2), Num(3)),
      Row(Num(2024), Num(131), Num(12), Num(5), Num(9), Num(-3), Num(1), Num(4)),
      Row(Num(2023), Num(131), Num(0), Num(30), Num(7), Num(2), Num(2), Num(2)),
      Row(Num(2024), Num(400), Num(0), Num(0), Num(5), Num(4), Num(4), Num(4)),
      Row(Num(2024), NaN, Num(0), Num(0), Num(7), Num(5), Num(5), Num(5)),
      Row(Num(2024), Num(131), Num(1), Num(0), NaN, Num(6), Num(6), Num(6)),
      Row(NaN, Num(131), Num(0), Num(0), Num(5), Num(7), Num(7), Num(7)),
      <<Num(2024), Num(131), Num(12), Num(0), Num(5), Num(1)>>,
      <<Num(2024), Num(131), Num(13), Num(0)>> }

Files ==
    {[readable |-> FALSE, lines |-> <<>>]} \cup
    {[readable |-> TRUE, lines |-> l] :
        l \in UNION {[1..n -> LineSet] : n \in 0..MaxLines}}

Init ==
    /\ lst_file \in Files
    /\ pc = "start"
    /\ storm_data = EmptyDataFrame
    /\ selected_year = None
    /\ selected_magnitude = None
    /\ filtered_data = <<>>
    /\ figure = None
    /\ clickData = None
    /\ click_text = None
    /\ raised = FALSE

\* line 50: storm_data = read_data(lst_file_path)
LoadData ==
    /\ pc = "start"
    /\ storm_data' = read_data(lst_file)
    /\ pc' = "loaded"
    /\ UNCHANGED <<lst_file, selected_year, selected_magnitude, filtered_data,
                   figure, clickData, click_text, raised>>

(***************************************************************************)
(* Column statistics used by the layout                                    *)
(***************************************************************************)
\* the cells of a column that are numbers (min, max, mean and unique skip
\* or keep NaN: min, max and mean skip it)
ColValues(data, c) == {data[i][c].v : i \in {j \in 1..Len(data) : IsNum(data[j][c])}}

\* storm_data[c].min(): NaN when no cell is a number
ColMin(data, c) ==
    IF ColValues(data, c) = {} THEN NaN
    ELSE Num(CHOOSE a \in ColValues(data, c) : \A b \in ColValues(data, c) : a <= b)

\* storm_data[c].max()
ColMax(data, c) ==
    IF ColValues(data, c) = {} THEN NaN
    ELSE Num(CHOOSE a \in ColValues(data, c) : \A b \in ColValues(data, c) : a >= b)

RECURSIVE ColSum(_, _, _)
ColSum(data, c, n) ==
    IF n = 0 THEN 0
    ELSE ColSum(data, c, n - 1) + (IF IsNum(data[n][c]) THEN data[n][c].v ELSE 0)

\* storm_data[c].mean(), rounded down: the cells are integers, so a cell is
\* <= the mean exactly when it is <= the mean rounded down
ColMean(data, c) ==
    IF ColValues(data, c) = {} THEN NaN
    ELSE Num(ColSum(data, c, Len(data)) \div
             Cardinality({j \in 1..Len(data) : IsNum(data[j][c])}))

\* a layout without the slider marks: nothing raises
LayoutNeverRaises(data) == FALSE

\* lines 73-75: int(storm_data['Field_Magnitude_Avg'].min()) raises
\* ValueError on NaN, that is when no row has a magnitude
LayoutRaises(data) == ColMin(data, "Field_Magnitude_Avg") = NaN

\* the values the year dropdown can send: the distinct years of the file
YearOptions(data) == {Num(y) : y \in ColValues(data, "Year")}

\* the values the slider can send: min..max of the magnitudes
SliderValues(data) ==
    IF ColMin(data, "Field_Magnitude_Avg") = NaN THEN {}
    ELSE {Num(k) : k \in ColMin(data, "Field_Magnitude_Avg").v ..
                         ColMax(data, "Field_Magnitude_Avg").v}

(***************************************************************************)
(* update_graph                                                            *)
(***************************************************************************)
\* the magnitude compared with < instead of <=
FilterStrict(data, year, magnitude) ==
    SelectSeq(data, LAMBDA r : Eq(r["Year"], year) /\
                               Le(r["Field_Magnitude_Avg"], magnitude) /\
                               ~Eq(r["Field_Magnitude_Avg"], magnitude))

\* lines 90-91: the boolean mask and the selection by it
Filter(data, year, magnitude) ==
    SelectSeq(data, LAMBDA r : Eq(r["Year"], year) /\
                               Le(r["Field_Magnitude_Avg"], magnitude))

\* one cell of filtered_data['DateTime'].dt.strftime('%Y-%m-%d %H:%M'):
\* NaT gives NaN
strftime(t) ==
    IF t = NaT THEN NaN
    ELSE Str(ToString(t.year) \o "-" \o Pad2(t.month) \o "-" \o Pad2(t.day)
             \o " " \o Pad2(t.hour) \o ":" \o Pad2(t.minute))

\* x taken from the whole DataFrame instead of the filtered one
Scatter3dUnfilteredX(f) ==
    [x |-> [i \in 1..Len(storm_data) |-> storm_data[i]["BX"]],
     y |-> [i \in 1..Len(f) |-> f[i]["BY"]],
     z |-> [i \in 1..Len(f) |-> f[i]["BZ"]],
     color |-> [i \in 1..Len(f) |-> f[i]["Field_Magnitude_Avg"]],
     text |-> [i \in 1..Len(f) |-> strftime(f[i]["DateTime"])]]

\* the arrays update_graph hands to go.Scatter3d
Scatter3d(f) ==
    [x |-> [i \in 1..Len(f) |-> f[i]["BX"]],
     y |-> [i \in 1..Len(f) |-> f[i]["BY"]],
     z |-> [i \in 1..Len(f) |-> f[i]["BZ"]],
     color |-> [i \in 1..Len(f) |-> f[i]["Field_Magnitude_Avg"]],
     text |-> [i \in 1..Len(f) |-> strftime(f[i]["DateTime"])]]

\* Series <= None raises TypeError (Series == None does not)
UpdateGraphRaises(year, magnitude) == magnitude = None

\* update_graph with the filtered frame assigned to the module-level name
update_graph_rebinds(year, magnitude) ==
    IF UpdateGraphRaises(year, magnitude)
    THEN /\ raised' = TRUE
         /\ UNCHANGED <<storm_data, filtered_data, figure>>
    ELSE /\ filtered_data' = Filter(storm_data, year, magnitude)
         /\ figure' = Scatter3d(Filter(storm_data, year, magnitude))
         /\ storm_data' = Filter(storm_data, year, magnitude)
         /\ raised' = raised

\* one call of update_graph by the framework: filtered_data is a local, the
\* module-level storm_data is only read; a call that raises leaves the figure
\* as it was
update_graph(year, magnitude) ==
    IF UpdateGraphRaises(year, magnitude)
    THEN /\ raised' = TRUE
         /\ UNCHANGED <<storm_data, filtered_data, figure>>
    ELSE /\ filtered_data' = Filter(storm_data, year, magnitude)
         /\ figure' = Scatter3d(Filter(storm_data, year, magnitude))
         /\ storm_data' = storm_data
         /\ raised' = raised

(***************************************************************************)
(* display_click_data                                                      *)
(***************************************************************************)
Placeholder == Str("Click on a point to see details.")

\* clickdata['points'][0] raises IndexError on an empty list
DisplayRaises(clickdata) == clickdata # None /\ Len(clickdata.points) = 0

\* the placeholder also for a point without a label
display_click_data_label(clickdata) ==
    IF clickdata # None /\ clickdata.points[1].text # None
    THEN LET point == clickdata.points[1]
         IN Str("Clicked Point: DateTime: " \o PyStr(point.text) \o
                ", BX: " \o PyStr(point.x) \o ", BY: " \o PyStr(point.y) \o
                ", BZ: " \o PyStr(point.z))
    ELSE Placeholder

display_click_data(clickdata) ==
    IF clickdata # None
    THEN LET point == clickdata.points[1]
         IN Str("Clicked Point: DateTime: " \o PyStr(point.text) \o
                ", BX: " \o PyStr(point.x) \o ", BY: " \o PyStr(point.y) \o
                ", BZ: " \o PyStr(point.z))
    ELSE Placeholder

\* the points of the figure that are drawn and can be clicked: those whose
\* three coordinates are numbers
Clickable(fig) ==
    IF fig = None THEN {}
    ELSE {i \in 1..Len(fig.x) : IsNum(fig.x[i]) /\ IsNum(fig.y[i]) /\ IsNum(fig.z[i])}

\* the clickData of a click on point i of the figure
ClickEvent(fig, i) ==
    [points |-> <<[x |-> Json(fig.x[i]), y |-> Json(fig.y[i]),
                   z |-> Json(fig.z[i]), text |-> Json(fig.text[i])]>>]

(***************************************************************************)
(* The script after the load, and the events of the dashboard              *)
(***************************************************************************)
\* lines 53-54: an empty DataFrame ends the script with a message
EmptyExit ==
    /\ pc = "loaded"
    /\ storm_data = EmptyDataFrame
    /\ pc' = "empty"
    /\ UNCHANGED <<lst_file, storm_data, selected_year, selected_magnitude,
                   filtered_data, figure, clickData, click_text, raised>>

\* lines 55-80: building the layout raises, the script ends with a traceback
LayoutCrash ==
    /\ pc = "loaded"
    /\ storm_data # EmptyDataFrame
    /\ LayoutRaises(storm_data)
    /\ pc' = "crashed"
    /\ UNCHANGED <<lst_file, storm_data, selected_year, selected_magnitude,
                   filtered_data, figure, clickData, click_text, raised>>

\* lines 55-134: the layout is built with the default year (the minimum) and
\* the default magnitude (the mean), the server starts, and the page load
\* calls both callbacks with the layout's values
StartDashboard ==
    /\ pc = "loaded"
    /\ storm_data # EmptyDataFrame
    /\ ~LayoutRaises(storm_data)
    /\ pc' = "serving"
    /\ selected_year' = Json(ColMin(storm_data, "Year"))
    /\ selected_magnitude' = Json(ColMean(storm_data, "Field_Magnitude_Avg"))
    /\ update_graph(selected_year', selected_magnitude')
    /\ click_text' = display_click_data(clickData)
    /\ UNCHANGED <<lst_file, clickData>>

\* a year change that also rewrites the text area
YearChangeResetsText ==
    /\ pc = "serving"
    /\ \E y \in YearOptions(storm_data) :
        /\ y # selected_year
        /\ selected_year' = y
        /\ update_graph(y, selected_magnitude)
    /\ click_text' = Placeholder
    /\ UNCHANGED <<lst_file, pc, selected_magnitude, clickData>>

\* the user picks another year: update_graph runs
YearChange ==
    /\ pc = "serving"
    /\ \E y \in YearOptions(storm_data) :
        /\ y # selected_year
        /\ selected_year' = y
        /\ update_graph(y, selected_magnitude)
    /\ UNCHANGED <<lst_file, pc, selected_magnitude, clickData, click_text>>

\* the user moves the slider: update_graph runs
MagnitudeChange ==
    /\ pc = "serving"
    /\ \E m \in SliderValues(storm_data) :
        /\ m # selected_magnitude
        /\ selected_magnitude' = m
        /\ update_graph(selected_year, m)
    /\ UNCHANGED <<lst_file, pc, selected_year, clickData, click_text>>

\* the user clicks a point of the graph: display_click_data runs
Click ==
    /\ pc = "serving"
    /\ \E i \in Clickable(figure) :
        /\ clickData' = ClickEvent(figure, i)
        /\ IF DisplayRaises(clickData')
           THEN raised' = TRUE /\ UNCHANGED click_text
           ELSE click_text' = display_click_data(clickData') /\ raised' = raised
    /\ UNCHANGED <<lst_file, pc, storm_data, selected_year, selected_magnitude,
                   filtered_data, figure>>

Next ==
    \/ LoadData
    \/ EmptyExit
    \/ LayoutCrash
    \/ StartDashboard
    \/ YearChange
    \/ MagnitudeChange
    \/ Click

Spec == Init /\ [][Next]_vars

(***************************************************************************)
(* update_graph as a function: called directly on the loaded DataFrame     *)
(* with any year and any magnitude bound, +infinity included               *)
(***************************************************************************)
YearInputs == {Num(2023), Num(2024), Num(2025)}

MagnitudeInputs == {Num(4), Num(5), Num(7), Num(9), Num(10), Inf}

UpdateGraphCall ==
    /\ pc = "loaded"
    /\ storm_data # EmptyDataFrame
    /\ \E y \in YearInputs, m \in MagnitudeInputs :
        /\ selected_year' = y
        /\ selected_magnitude' = m
        /\ update_graph(y, m)
    /\ UNCHANGED <<lst_file, pc, clickData, click_text>>

FilterNext == LoadData \/ UpdateGraphCall

FilterSpec == Init /\ [][FilterNext]_vars

(***************************************************************************)
(* Properties                                                              *)
(***************************************************************************)
\* the rows of data whose Year is y and whose magnitude is a number <= m
MatchingRows(data, y, m) ==
    {i \in 1..Len(data) :
        /\ IsNum(data[i]["Year"]) /\ data[i]["Year"].v = y.v
        /\ IsNum(data[i]["Field_Magnitude_Avg"])
        /\ (m = Inf \/ data[i]["Field_Magnitude_Avg"].v <= m.v)}

\* the k-th smallest member of a set of row numbers
Kth(idx, k) == CHOOSE i \in idx : Cardinality({j \in idx : j <= i}) = k

\* C1: after a call update_graph(y, m) the filtered frame holds exactly the
\* rows with Year = y and magnitude <= m, in the order of the DataFrame, and
\* the call did not raise (an empty selection gives an empty frame).
C1_FilterExact ==
    figure # None =>
        LET idx == MatchingRows(storm_data, selected_year, selected_magnitude)
        IN /\ ~raised
           /\ Len(filtered_data) = Cardinality(idx)
           /\ \A k \in 1..Len(filtered_data) :
                 filtered_data[k] = storm_data[Kth(idx, k)]

\* C1 witness: a call that kept a row whose magnitude is the bound itself,
\* dropped a row of the selected year for its magnitude, and dropped a row
\* of another year.
C1_Witness ==
    /\ figure # None
    /\ Len(filtered_data) >= 1
    /\ filtered_data[1]["Field_Magnitude_Avg"] = selected_magnitude
    /\ \E i, j \in 1..Len(storm_data) :
          /\ Eq(storm_data[i]["Year"], selected_year)
          /\ IsNum(storm_data[i]["Field_Magnitude_Avg"])
          /\ ~Le(storm_data[i]["Field_Magnitude_Avg"], selected_magnitude)
          /\ IsNum(storm_data[j]["Year"])
          /\ ~Eq(storm_data[j]["Year"], selected_year)

\* the file cannot be read, or a line of it does not have the expected
\* number of fields
FileLevelFailure(f) ==
    \/ ~f.readable
    \/ \E i \in 1..Len(f.lines) : Len(f.lines[i]) # Len(column_names)

\* C2: after a file-level parse failure (the caller is to see an empty
\* Dataset) the dashboard is never started.
C2_NoDashboardAfterParseFailure ==
    FileLevelFailure(lst_file) => pc # "serving"

\* the Year/Day/Hour/Minute fields of a line form a timestamp
ValidStampFields(line) ==
    /\ Len(line) >= 4
    /\ \A k \in 1..4 : IsNum(line[k])
    /\ line[1].v \in 1000..9999
    /\ line[2].v \in 1..366
    /\ line[3].v \in 0..23
    /\ line[4].v \in 0..59

\* C3: read_data of a readable file returns one row per line, in file
\* order, and a row's DateTime is null exactly when its own
\* Year/Day/Hour/Minute do not form a timestamp, whatever the other rows hold.
C3_RowsIndependent ==
    (pc # "start" /\ lst_file.readable) =>
        /\ Len(storm_data) = Len(lst_file.lines)
        /\ \A i \in 1..Len(storm_data) :
              /\ \A k \in 1..Len(lst_file.lines[i]) :
                    storm_data[i][column_names[k]] = lst_file.lines[i][k]
              /\ (storm_data[i]["DateTime"] = NaT
                    <=> ~ValidStampFields(lst_file.lines[i]))

\* C4: while the dashboard is served no callback has raised: there is a
\* figure and the text area holds a string.
C4_CallbacksTotal ==
    pc = "serving" => (~raised /\ figure # None /\ IsStr(click_text))

\* C4 witness: a point with a null DateTime was clicked, and the current
\* selection matches no row.
C4_Witness ==
    /\ pc = "serving"
    /\ clickData # None
    /\ clickData.points[1].text = None
    /\ filtered_data = <<>>
    /\ ~raised

\* s is text of the form YYYY-MM-DD HH:MM that spells the timestamp t
SpellsTimestamp(s, t) ==
    /\ Len(s) = 16
    /\ Char(s, 5) = "-" /\ Char(s, 8) = "-" /\ Char(s, 11) = " " /\ Char(s, 14) = ":"
    /\ IsDigits(SubSeq(s, 1, 4)) /\ StrToInt(SubSeq(s, 1, 4)) = t.year
    /\ IsDigits(SubSeq(s, 6, 7)) /\ StrToInt(SubSeq(s, 6, 7)) = t.month
    /\ IsDigits(SubSeq(s, 9, 10)) /\ StrToInt(SubSeq(s, 9, 10)) = t.day
    /\ IsDigits(SubSeq(s, 12, 13)) /\ StrToInt(SubSeq(s, 12, 13)) = t.hour
    /\ IsDigits(SubSeq(s, 15, 16)) /\ StrToInt(SubSeq(s, 15, 16)) = t.minute

\* C5: the hover label of every filtered row is its DateTime as
\* YYYY-MM-DD HH:MM, or a sentinel string when the DateTime is null.
C5_HoverLabel ==
    figure # None =>
        \A i \in 1..Len(filtered_data) :
            /\ IsStr(figure.text[i])
            /\ filtered_data[i]["DateTime"] # NaT =>
                  SpellsTimestamp(figure.text[i].s, filtered_data[i]["DateTime"])

\* the text of a selection, spelled out from the first point of a click
SummaryOf(point) ==
    Str("Clicked Point: DateTime: " \o
        (IF point.text = None THEN "None" ELSE point.text.s) \o
        ", BX: " \o ToString(point.x.v) \o
        ", BY: " \o ToString(point.y.v) \o
        ", BZ: " \o ToString(point.z.v))

\* C6: without a click the text area shows the placeholder, after a click it
\* shows the summary of the first point of the last click, and once a point
\* was clicked the placeholder never comes back.
C6_SelectionEcho ==
    /\ [](pc = "serving" =>
            IF clickData = None THEN click_text = Placeholder
            ELSE click_text = SummaryOf(clickData.points[1]))
    /\ [][clickData # None => (clickData' # None /\ click_text' # Placeholder)]_vars

\* C6 witness: the summary of a clicked point is shown.
C6_Witness ==
    /\ pc = "serving"
    /\ clickData # None
    /\ click_text = Str("Clicked Point: DateTime: 2024-05-10 12:05, BX: -3, BY: 1, BZ: 4")

\* the rows of data whose Year is y
RowsOfYear(data, y) ==
    SelectSeq(data, LAMBDA r : IsNum(r["Year"]) /\ r["Year"].v = y.v)

\* C7 as claimed: with a bound of +infinity the filter returns every row of
\* the year, rows without a magnitude included.
C7_InfinityKeepsAll ==
    (figure # None /\ selected_magnitude = Inf) =>
        filtered_data = RowsOfYear(storm_data, selected_year)

\* C7 amended: with a bound of +infinity the filter returns exactly the rows
\* of the year whose magnitude is not missing.
C7_InfinityKeepsPresent ==
    (figure # None /\ selected_magnitude = Inf) =>
        filtered_data =
            SelectSeq(RowsOfYear(storm_data, selected_year),
                      LAMBDA r : r["Field_Magnitude_Avg"] # NaN)

\* C7 witness: a call with +infinity for a year that has a row with a
\* magnitude and a row without one.
C7_Witness ==
    /\ figure # None
    /\ selected_magnitude = Inf
    /\ Len(filtered_data) >= 1
    /\ \E i \in 1..Len(storm_data) :
          /\ Eq(storm_data[i]["Year"], selected_year)
          /\ storm_data[i]["Field_Magnitude_Avg"] = NaN

\* C8: while the dashboard is served the DataFrame is the one read_data
\* returned at startup, no event changes it, and the filtered frame is the
\* filter of that DataFrame by the current selection.
C8_DatasetImmutable ==
    /\ [](pc = "serving" =>
            /\ storm_data = read_data(lst_file)
            /\ filtered_data =
                  Filter(read_data(lst_file), selected_year, selected_magnitude))
    /\ [][pc = "serving" => storm_data' = storm_data]_vars

\* C8 witness: a point was clicked and the selection then changed to one
\* that keeps only some of the rows.
C8_Witness ==
    /\ pc = "serving"
    /\ clickData # None
    /\ selected_year # Json(ColMin(storm_data, "Year"))
    /\ Len(filtered_data) >= 1
    /\ Len(filtered_data) < Len(storm_data)

\* C9: the point cloud has one point per filtered row: x, y, z, color and
\* text are as long as the filtered frame and the i-th point carries the
\* i-th row's BX, BY, BZ and magnitude.
C9_PointCloud ==
    figure # None =>
        /\ Len(figure.x) = Len(filtered_data)
        /\ Len(figure.y) = Len(filtered_data)
        /\ Len(figure.z) = Len(filtered_data)
        /\ Len(figure.color) = Len(filtered_data)
        /\ Len(figure.text) = Len(filtered_data)
        /\ \A i \in 1..Len(filtered_data) :
              /\ figure.x[i] = filtered_data[i]["BX"]
              /\ figure.y[i] = filtered_data[i]["BY"]
              /\ figure.z[i] = filtered_data[i]["BZ"]
              /\ figure.color[i] = filtered_data[i]["Field_Magnitude_Avg"]
        /\ (filtered_data = <<>> => ~raised)

\* C9 witness: a point cloud of two different points.
C9_Witness ==
    /\ pc = "serving"
    /\ Len(figure.x) = 2
    /\ figure.x[1] # figure.x[2]

\* C10: a year or magnitude change leaves the text area and the clickData
\* as they were, and a click leaves the figure as it was.
C10_EchoAndFigureIndependent ==
    /\ [][(pc = "serving" /\ (selected_year' # selected_year \/
                               selected_magnitude' # selected_magnitude))
            => (click_text' = click_text /\ clickData' = clickData)]_vars
    /\ [][(pc = "serving" /\ clickData' # clickData)
            => (figure' = figure /\ filtered_data' = filtered_data)]_vars

\* C10 witness: the text area shows a clicked point that is not among the
\* points of the current figure.
C10_Witness ==
    /\ pc = "serving"
    /\ clickData # None
    /\ click_text = SummaryOf(clickData.points[1])
    /\ \A i \in Clickable(figure) : ClickEvent(figure, i) # clickData

====
